---- MODULE Spec2Model ----
(***************************************************************************)
(* Model of the DeepDock-AI API clients: src/utils/pubchemUtils.ts (the    *)
(* PubChem client) and src/utils/pdbUtils.ts (the RCSB PDB client).        *)
(*                                                                         *)
(* JavaScript values are tagged records; strings are sequences of          *)
(* one-character strings, so that regular expressions, trim and            *)
(* toUpperCase are computed character by character.  A thrown exception    *)
(* is the value Throw, which every operator propagates until a catch.      *)
(***************************************************************************)
EXTENDS Integers, Sequences, FiniteSets, TLC

\* ------------------------------------------------------------------ bounds
MaxCodeLen == 5      \* longest string handed to validatePDBId
MaxSeqLen == 4       \* longest sequence text handed to searchPDBBySequence
MaxIdLen == 4        \* longest identifier of a search result
MaxBodyLen == 102    \* longest text body of a structure-file response

\* --------------------------------------------------------------- JS values
Null == [t |-> "null"]
Undef == [t |-> "undef"]
Throw == [t |-> "throw"]
Unparsable == [t |-> "unparsable"]
Num(n) == [t |-> "num", n |-> n]
Str(s) == [t |-> "str", s |-> s]
Bool(b) == [t |-> "bool", b |-> b]
Arr(a) == [t |-> "arr", a |-> a]
Obj(m) == [t |-> "obj", m |-> m]
EmptyObj == Obj([k \in {} |-> Null])

\* ToBoolean: undefined, null, 0 and "" are falsy
Truthy(v) ==
  CASE v.t \in {"null", "undef"} -> FALSE
    [] v.t = "num" -> v.n # 0
    [] v.t = "str" -> Len(v.s) > 0
    [] v.t = "bool" -> v.b
    [] OTHER -> TRUE

\* v.k : a TypeError on null and undefined, undefined for a missing key
Get(v, k) ==
  CASE v.t = "throw" -> Throw
    [] v.t \in {"null", "undef"} -> Throw
    [] v.t = "obj" -> IF k \in DOMAIN v.m THEN v.m[k] ELSE Undef
    [] OTHER -> Undef

\* v?.k
OptGet(v, k) ==
  IF v.t \in {"null", "undef"} THEN Undef ELSE Get(v, k)

\* v?.[0]
OptFirst(v) ==
  CASE v.t = "throw" -> Throw
    [] v.t \in {"null", "undef"} -> Undef
    [] v.t = "arr" -> IF Len(v.a) > 0 THEN v.a[1] ELSE Undef
    [] v.t = "str" -> IF Len(v.s) > 0 THEN Str(<<v.s[1]>>) ELSE Undef
    [] OTHER -> Undef

\* a || b
Or(a, b) ==
  IF a.t = "throw" THEN Throw ELSE IF Truthy(a) THEN a ELSE b

Digits == <<"0", "1", "2", "3", "4", "5", "6", "7", "8", "9">>

\* v.toString() for the numbers and strings of the modelled payloads
toString(v) ==
  CASE v.t = "num" -> Str(<<Digits[v.n + 1]>>)
    [] v.t = "str" -> v
    [] v.t = "throw" -> Throw

\* v?.toString()
OptToString(v) ==
  IF v.t \in {"null", "undef"} THEN Undef ELSE toString(v)

\* ----------------------------------------------------------------- strings
NL == "\n"
CR == "\r"
SP == " "
\* the characters U+00DF (LATIN SMALL LETTER SHARP S) and U+017F (LATIN
\* SMALL LETTER LONG S), each ONE character of a JavaScript string
SharpS == "U+00DF"
LongS == "U+017F"
LowerLetters == <<"a", "b", "c", "d", "e", "f", "g", "h", "i", "j", "k", "l", "m",
                  "n", "o", "p", "q", "r", "s", "t", "u", "v", "w", "x", "y", "z">>
UpperLetters == <<"A", "B", "C", "D", "E", "F", "G", "H", "I", "J", "K", "L", "M",
                  "N", "O", "P", "Q", "R", "S", "T", "U", "V", "W", "X", "Y", "Z">>
Range(f) == {f[i] : i \in DOMAIN f}
IsDigit(c) == c \in Range(Digits)
IsUpper(c) == c \in Range(UpperLetters)
IsLower(c) == c \in Range(LowerLetters)
\* \s of a JavaScript regular expression, and the characters trim() strips
IsSpace(c) == c \in {SP, NL, CR, "\t"}
\* the line terminators: what "." does not match and what "^" (flag m) follows
IsLineTerminator(c) == c \in {NL, CR}

RECURSIVE Concat(_)
Concat(ss) == IF ss = <<>> THEN <<>> ELSE Head(ss) \o Concat(Tail(ss))

\* String.prototype.toUpperCase on one character.  The Unicode special
\* casing maps the one character U+00DF to the two characters "SS", and
\* the one character U+017F to "S".
UpperChar(c) ==
  IF IsLower(c)
  THEN <<UpperLetters[CHOOSE i \in DOMAIN LowerLetters : LowerLetters[i] = c]>>
  ELSE IF c = SharpS THEN <<"S", "S">>
  ELSE IF c = LongS THEN <<"S">>
  ELSE <<c>>

toUpperCase(s) == Concat([i \in DOMAIN s |-> UpperChar(s[i])])

RECURSIVE TrimStart(_)
TrimStart(s) ==
  IF s # <<>> /\ IsSpace(Head(s)) THEN TrimStart(Tail(s)) ELSE s

RECURSIVE TrimEnd(_)
TrimEnd(s) ==
  IF s # <<>> /\ IsSpace(s[Len(s)]) THEN TrimEnd(SubSeq(s, 1, Len(s) - 1)) ELSE s

trim(s) == TrimEnd(TrimStart(s))

\* s.replace(/\s+/g, '')
StripWhitespace(s) == SelectSeq(s, LAMBDA c : ~IsSpace(c))

\* all strings over an alphabet up to a length
RECURSIVE StringsOfLen(_, _)
StringsOfLen(alphabet, n) ==
  IF n = 0 THEN {<<>>}
  ELSE {<<c>> \o s : c \in alphabet, s \in StringsOfLen(alphabet, n - 1)}

StringsUpTo(alphabet, n) == UNION {StringsOfLen(alphabet, k) : k \in 0..n}

\* ------------------------------------------------ pdbUtils: pure functions
IsDigit19(c) == IsDigit(c) /\ c # "0"
\* [A-Z0-9]
IsUpperAlnum(c) == IsUpper(c) \/ IsDigit(c)

\* /^[1-9][A-Z0-9]{3}$/.test(pdbId.toUpperCase())
validatePDBId(pdbId) ==
  LET u == toUpperCase(pdbId)
  IN  /\ Len(u) = 4
      /\ IsDigit19(u[1])
      /\ \A i \in 2..4 : IsUpperAlnum(u[i])

\* /([1-9][A-Z0-9]{3})/ matches s at position i
CodeAt(s, i) ==
  /\ i + 3 <= Len(s)
  /\ IsDigit19(s[i])
  /\ \A j \in 1..3 : IsUpperAlnum(s[i + j])

\* entityId.match(/([1-9][A-Z0-9]{3})/): group 1 of the leftmost match, or
\* null; a TypeError when entityId is not a string
pdbIdMatch(entityId) ==
  IF entityId.t # "str" THEN Throw
  ELSE LET s == entityId.s
           hits == {i \in 1..Len(s) : CodeAt(s, i)}
       IN  IF hits = {} THEN Null
           ELSE LET i == CHOOSE i \in hits : \A j \in hits : i <= j
                IN  Str(SubSeq(s, i, i + 3))

\* sequence.replace(/^>.*\n/gm, '') from position i on: at a line start a
\* ">" followed by characters other than line terminators and then by "\n"
\* is dropped; every other character is kept
RECURSIVE StripHeadersFrom(_, _)
StripHeadersFrom(s, i) ==
  IF i > Len(s) THEN <<>>
  ELSE LET atLineStart == i = 1 \/ IsLineTerminator(s[i - 1])
           ends == {j \in (i + 1)..Len(s) : IsLineTerminator(s[j])}
           j == CHOOSE j \in ends : \A k \in ends : j <= k
       IN  IF atLineStart /\ s[i] = ">" /\ ends # {} /\ s[j] = NL
           THEN StripHeadersFrom(s, j + 1)
           ELSE <<s[i]>> \o StripHeadersFrom(s, i + 1)

\* sequence.replace(/^>.*\n/gm, '').replace(/\s+/g, '')
cleanSequence(sequence) == StripWhitespace(StripHeadersFrom(sequence, 1))

\* smiles.trim().replace(/\s+/g, '')
normalizedSmiles(smiles) == StripWhitespace(trim(smiles))

\* pdbId.toUpperCase().trim()
normalizedId(pdbId) == trim(toUpperCase(pdbId))

\* ---------------------------------------------------------------- responses
\* fetch() rejects (transport failure) or resolves with a status and a body
NetErr == [kind |-> "neterr", ok |-> FALSE, body |-> Null]
Http(ok, body) == [kind |-> "http", ok |-> ok, body |-> body]

\* await response.json(): a SyntaxError when the body is not JSON
json(body) == IF body = Unparsable THEN Throw ELSE body

\* mutant: the catch block rethrows
Catch_rethrow(v, fallback) == v

\* try { ... } catch (error) { console.error(...); return fallback; }
Catch(v, fallback) == IF v = Throw THEN fallback ELSE v

\* the fields of an object literal; evaluating any of them may throw
Literal(m) == IF \E k \in DOMAIN m : m[k] = Throw THEN Throw ELSE Obj(m)

\* sdfData.includes(sub)
Includes(s, sub) ==
  \E i \in 1..(Len(s) - Len(sub) + 1) : SubSeq(s, i, i + Len(sub) - 1) = sub

StatusMarker == <<"S", "t", "a", "t", "u", "s">>
UnknownTitle == <<"U", "n", "k", "n", "o", "w", "n">>
PDBMinLength == 100

\* ------------------------------------------- pubchemUtils: function bodies
\* the try block of fetchPubChemCID once fetch has settled with resp
fetchPubChemCID_try(smiles, resp) ==
  IF resp.kind = "neterr" THEN Throw
  ELSE IF resp.ok
  THEN LET data == json(resp.body)
           cid == OptFirst(OptGet(Get(data, "IdentifierList"), "CID"))
       IN  IF cid = Throw THEN Throw
           ELSE IF Truthy(cid) THEN toString(cid) ELSE Null
  ELSE Null

fetchPubChemCID_result(smiles, resp) == Catch(fetchPubChemCID_try(smiles, resp), Null)

\* mutant: a missing logP is turned into zero
PropertiesRecord_zeroLogP(smiles, cid, props) ==
  Literal(
    "cid" :> cid @@
    "molecularWeight" :> Or(Get(props, "MolecularWeight"), Num(0)) @@
    "molecularFormula" :> Or(Get(props, "MolecularFormula"), Str(<<>>)) @@
    "canonicalSmiles" :> Or(Get(props, "CanonicalSMILES"), Str(smiles)) @@
    "isomericSmiles" :> Or(Get(props, "IsomericSMILES"), Str(smiles)) @@
    "logP" :> Or(Get(props, "LogP"), Num(0)) @@
    "topologicalPolarSurfaceArea" :> Get(props, "TopologicalPolarSurfaceArea") @@
    "hBondDonor" :> Get(props, "HydrogenBondDonorCount") @@
    "hBondAcceptor" :> Get(props, "HydrogenBondAcceptorCount") @@
    "rotatableBondCount" :> Get(props, "RotatableBondCount") @@
    "complexity" :> Get(props, "Complexity") @@
    "xLogP3" :> Get(props, "XLogP3") @@
    "exactMass" :> Get(props, "ExactMass") @@
    "monoisotopicMass" :> Get(props, "MonoisotopicMass") @@
    "iupacName" :> Get(props, "IUPAC_Name") @@
    "inchi" :> Get(props, "InChI") @@
    "inchiKey" :> Get(props, "InChIKey"))

\* the record fetchPubChemProperties builds from props
PropertiesRecord(smiles, cid, props) ==
  Literal(
    "cid" :> cid @@
    "molecularWeight" :> Or(Get(props, "MolecularWeight"), Num(0)) @@
    "molecularFormula" :> Or(Get(props, "MolecularFormula"), Str(<<>>)) @@
    "canonicalSmiles" :> Or(Get(props, "CanonicalSMILES"), Str(smiles)) @@
    "isomericSmiles" :> Or(Get(props, "IsomericSMILES"), Str(smiles)) @@
    "logP" :> Get(props, "LogP") @@
    "topologicalPolarSurfaceArea" :> Get(props, "TopologicalPolarSurfaceArea") @@
    "hBondDonor" :> Get(props, "HydrogenBondDonorCount") @@
    "hBondAcceptor" :> Get(props, "HydrogenBondAcceptorCount") @@
    "rotatableBondCount" :> Get(props, "RotatableBondCount") @@
    "complexity" :> Get(props, "Complexity") @@
    "xLogP3" :> Get(props, "XLogP3") @@
    "exactMass" :> Get(props, "ExactMass") @@
    "monoisotopicMass" :> Get(props, "MonoisotopicMass") @@
    "iupacName" :> Get(props, "IUPAC_Name") @@
    "inchi" :> Get(props, "InChI") @@
    "inchiKey" :> Get(props, "InChIKey"))

\* the try block of fetchPubChemProperties after the property request settled
fetchPubChemProperties_try(smiles, cid, resp) ==
  IF resp.kind = "neterr" THEN Throw
  ELSE IF resp.ok
  THEN LET data == json(resp.body)
           props == OptFirst(OptGet(Get(data, "PropertyTable"), "Properties"))
       IN  IF props = Throw THEN Throw
           ELSE IF Truthy(props) THEN PropertiesRecord(smiles, cid, props)
           ELSE Null
  ELSE Null

fetchPubChemProperties_result(smiles, cid, resp) ==
  Catch(fetchPubChemProperties_try(smiles, cid, resp), Null)

fetchPubChem3DStructure_try(cid, resp) ==
  IF resp.kind = "neterr" THEN Throw
  ELSE IF resp.ok
  THEN LET sdfData == resp.body
       IN  IF Truthy(sdfData) /\ Len(sdfData.s) > 0
              /\ ~Includes(sdfData.s, StatusMarker)
           THEN sdfData ELSE Null
  ELSE Null

fetchPubChem3DStructure_result(cid, resp) ==
  Catch(fetchPubChem3DStructure_try(cid, resp), Null)

fetchPubChemDescription_try(cid, resp) ==
  IF resp.kind = "neterr" THEN Throw
  ELSE IF resp.ok
  THEN LET data == json(resp.body)
           description ==
             OptGet(OptFirst(OptGet(Get(data, "InformationList"), "Information")),
                    "Description")
       IN  Or(description, Null)
  ELSE Null

fetchPubChemDescription_result(cid, resp) ==
  Catch(fetchPubChemDescription_try(cid, resp), Null)

\* the record fetchCompletePubChemRecord returns
CompleteRecord(properties, description) ==
  Literal(
    "properties" :> properties @@
    "description" :> Or(description, Undef) @@
    "synonyms" :> Undef)

\* ----------------------------------------------- pdbUtils: function bodies
\* mutant: the floor is inclusive (length >= 100)
fetchPDBStructure_try_inclusive(pdbId, resp) ==
  IF resp.kind = "neterr" THEN Throw
  ELSE IF resp.ok
  THEN LET pdbData == resp.body
       IN  IF Truthy(pdbData) /\ Len(pdbData.s) >= PDBMinLength
           THEN pdbData ELSE Null
  ELSE Null

fetchPDBStructure_try(pdbId, resp) ==
  IF resp.kind = "neterr" THEN Throw
  ELSE IF resp.ok
  THEN LET pdbData == resp.body
       IN  IF Truthy(pdbData) /\ Len(pdbData.s) > PDBMinLength
           THEN pdbData ELSE Null
  ELSE Null

fetchPDBStructure_result(pdbId, resp) == Catch(fetchPDBStructure_try(pdbId, resp), Null)

\* mutant: the title has no fallback
PDBInfoRecord_noFallback(pdbId, data) ==
  Literal(
    "id" :> Str(normalizedId(pdbId)) @@
    "title" :> OptGet(Get(data, "struct"), "title") @@
    "description" :> Or(OptGet(Get(data, "struct"), "pdbx_descriptor"), Undef) @@
    "method" :> Or(OptGet(OptFirst(Get(data, "exptl")), "method"), Undef) @@
    "resolution" :>
      Or(OptToString(OptFirst(OptGet(Get(data, "rcsb_entry_info"),
                                     "resolution_combined"))), Undef) @@
    "depositionDate" :>
      Or(OptGet(Get(data, "rcsb_accession_info"), "deposit_date"), Undef) @@
    "releaseDate" :>
      Or(OptGet(Get(data, "rcsb_accession_info"), "initial_release_date"), Undef) @@
    "chainIds" :>
      Or(OptGet(Get(data, "rcsb_entry_container_identifiers"),
                "polymer_entity_ids"), Arr(<<>>)) @@
    "experimentalTechnique" :> Or(OptGet(OptFirst(Get(data, "exptl")), "method"), Undef))

\* the record fetchPDBInfo builds from the entry document
PDBInfoRecord(pdbId, data) ==
  Literal(
    "id" :> Str(normalizedId(pdbId)) @@
    "title" :> Or(OptGet(Get(data, "struct"), "title"), Str(UnknownTitle)) @@
    "description" :> Or(OptGet(Get(data, "struct"), "pdbx_descriptor"), Undef) @@
    "method" :> Or(OptGet(OptFirst(Get(data, "exptl")), "method"), Undef) @@
    "resolution" :>
      Or(OptToString(OptFirst(OptGet(Get(data, "rcsb_entry_info"),
                                     "resolution_combined"))), Undef) @@
    "depositionDate" :>
      Or(OptGet(Get(data, "rcsb_accession_info"), "deposit_date"), Undef) @@
    "releaseDate" :>
      Or(OptGet(Get(data, "rcsb_accession_info"), "initial_release_date"), Undef) @@
    "chainIds" :>
      Or(OptGet(Get(data, "rcsb_entry_container_identifiers"),
                "polymer_entity_ids"), Arr(<<>>)) @@
    "experimentalTechnique" :> Or(OptGet(OptFirst(Get(data, "exptl")), "method"), Undef))

fetchPDBInfo_try(pdbId, resp) ==
  IF resp.kind = "neterr" THEN Throw
  ELSE IF resp.ok THEN PDBInfoRecord(pdbId, json(resp.body))
  ELSE Null

fetchPDBInfo_result(pdbId, resp) == Catch(fetchPDBInfo_try(pdbId, resp), Null)

searchPDBBySequence_try(sequence, resp) ==
  IF resp.kind = "neterr" THEN Throw
  ELSE IF resp.ok THEN Or(Get(json(resp.body), "result_set"), Arr(<<>>))
  ELSE Arr(<<>>)

searchPDBBySequence_result(sequence, resp) ==
  Catch(searchPDBBySequence_try(sequence, resp), Arr(<<>>))

fetchPolymerEntityDetails_try(entityId, resp) ==
  IF resp.kind = "neterr" THEN Throw
  ELSE IF resp.ok THEN json(resp.body)
  ELSE Null

fetchPolymerEntityDetails_result(entityId, resp) ==
  Catch(fetchPolymerEntityDetails_try(entityId, resp), Null)

fetchPDBChainSequence_try(pdbId, resp) ==
  IF resp.kind = "neterr" THEN Throw
  ELSE IF resp.ok THEN Or(Get(json(resp.body), "sequences"), Arr(<<>>))
  ELSE Arr(<<>>)

fetchPDBChainSequence_result(pdbId, resp) ==
  Catch(fetchPDBChainSequence_try(pdbId, resp), Arr(<<>>))

\* results.length > 0
NonEmpty(results) ==
  CASE results.t = "arr" -> Len(results.a) > 0
    [] results.t = "str" -> Len(results.s) > 0
    [] OTHER -> FALSE

\* findBestMatchPDB between the search and the info fetch: the locals
\* bestMatch, entityId and pdbId when a code was extracted, null when the
\* function returns null, Throw when the block throws
findBestMatchPDB_extract(results) ==
  IF results = Throw THEN Throw
  ELSE IF NonEmpty(results)
  THEN LET bestMatch == OptFirst(results)
           entityId == Get(bestMatch, "identifier")
           pdbId == pdbIdMatch(entityId)
       IN  IF pdbId = Throw THEN Throw
           ELSE IF Truthy(pdbId)
           THEN Obj("bestMatch" :> bestMatch @@ "entityId" :> entityId @@
                    "pdbId" :> pdbId)
           ELSE Null
  ELSE Null

\* mutant: a match without info is dropped
BestMatchRecord_needsInfo(loc, info) ==
  IF info = Null THEN Null
  ELSE Literal(
    "pdbId" :> loc.m["pdbId"] @@
    "entityId" :> loc.m["entityId"] @@
    "score" :> Or(Get(loc.m["bestMatch"], "score"), Num(0)) @@
    "info" :> info)

\* the record findBestMatchPDB returns
BestMatchRecord(loc, info) ==
  Literal(
    "pdbId" :> loc.m["pdbId"] @@
    "entityId" :> loc.m["entityId"] @@
    "score" :> Or(Get(loc.m["bestMatch"], "score"), Num(0)) @@
    "info" :> info)

\* ------------------------------------------------ inputs and remote answers
Restrict(f, K) == [k \in K |-> f[k]]
\* a text body of n characters
Text(n) == Str([i \in 1..n |-> "A"])
\* the answers of an endpoint whose body is one of docs
Responses(docs) ==
  {NetErr, Http(FALSE, Unparsable)} \cup {Http(TRUE, d) : d \in docs}

SmilesInputs == {<<"C", "C", "O">>, <<SP, "C", "C", SP, "O", NL>>, <<>>}
CidInputs == {<<"7">>, <<>>}
PdbIdInputs ==
  {<<"4", "H", "H", "B">>, <<"1", "a", "b", "c">>, <<SP, "1", "a", "b", "c", SP>>,
   <<"1", "a", SharpS>>, <<>>}
EntityIdInputs == {<<"4", "H", "H", "B", "_", "1">>, <<>>}
FastaAlphabet == {">", "A", NL, SP, CR}
FastaInputs == StringsUpTo(FastaAlphabet, MaxSeqLen)
SequenceInputs ==
  {<<"A", "A">>, <<">", "A", NL, "A", SP, "A">>, <<">", "A", CR, NL, "A">>, <<">", "A">>}
BestMatchInputs == {<<"A", "A">>, <<">", "A", NL, "A", SP, "A">>}
CodeAlphabet == {"0", "1", "a", "B", SharpS}
CodeExamples ==
  {<<"1", "a", "b", "c">>, <<"4", "H", "H", "B">>, <<"0", "A", "B", "C">>,
   <<"A", "B", "C", "D">>, <<"1", "2", "A", "B", "5">>, <<"1", "A", "B", "C", NL>>,
   <<SP, "1", "A", "B", "C">>, <<"1", "A", "B", "C", SP>>, <<"1", "A", "_", "C">>,
   <<"1", "a", "b", LongS>>}
CodeInputs == StringsUpTo(CodeAlphabet, MaxCodeLen) \cup CodeExamples

IdList(v) == Obj("IdentifierList" :> v)
CIDDocs ==
  {Unparsable, Null, EmptyObj, IdList(Null), IdList(EmptyObj),
   IdList(Obj("CID" :> Arr(<<>>))),
   IdList(Obj("CID" :> Arr(<<Num(0)>>))),
   IdList(Obj("CID" :> Arr(<<Num(7)>>))),
   IdList(Obj("CID" :> Arr(<<Num(7), Num(3)>>)))}

RequiredProps == {"MolecularWeight", "MolecularFormula", "CanonicalSMILES", "IsomericSMILES"}
OptionalProps ==
  {"LogP", "TopologicalPolarSurfaceArea", "HydrogenBondDonorCount",
   "HydrogenBondAcceptorCount", "RotatableBondCount", "Complexity", "XLogP3",
   "ExactMass", "MonoisotopicMass", "IUPAC_Name", "InChI", "InChIKey"}
FullProps ==
  "MolecularWeight" :> Num(46) @@
  "MolecularFormula" :> Str(<<"C", "2", "H", "6", "O">>) @@
  "CanonicalSMILES" :> Str(<<"C", "C", "O">>) @@
  "IsomericSMILES" :> Str(<<"C", "C", "O">>) @@
  "LogP" :> Num(0) @@
  "TopologicalPolarSurfaceArea" :> Num(20) @@
  "HydrogenBondDonorCount" :> Num(1) @@
  "HydrogenBondAcceptorCount" :> Num(1) @@
  "RotatableBondCount" :> Num(0) @@
  "Complexity" :> Num(2) @@
  "XLogP3" :> Num(0) @@
  "ExactMass" :> Num(46) @@
  "MonoisotopicMass" :> Num(46) @@
  "IUPAC_Name" :> Str(<<"e", "t", "h", "a", "n", "o", "l">>) @@
  "InChI" :> Str(<<"I">>) @@
  "InChIKey" :> Str(<<"K">>)
PropsObjects ==
  {Obj(Restrict(FullProps, R \cup O)) :
     R \in SUBSET RequiredProps, O \in {{}, {"LogP"}, OptionalProps}}
PropTable(v) == Obj("PropertyTable" :> v)
PropertyDocs ==
  {Unparsable, Null, EmptyObj, PropTable(EmptyObj),
   PropTable(Obj("Properties" :> Arr(<<>>)))}
  \cup {PropTable(Obj("Properties" :> Arr(<<p>>))) : p \in PropsObjects}

SdfBodies ==
  {Str(<<>>), Str(<<"M", "O", "L">>), Str(StatusMarker),
   Str(<<"x">> \o StatusMarker \o <<"y">>)}

InfoList(v) == Obj("InformationList" :> v)
DescriptionDocs ==
  {Unparsable, Null, EmptyObj, InfoList(EmptyObj),
   InfoList(Obj("Information" :> Arr(<<>>))),
   InfoList(Obj("Information" :> Arr(<<EmptyObj>>))),
   InfoList(Obj("Information" :> Arr(<<Obj("Description" :> Str(<<>>))>>))),
   InfoList(Obj("Information" :> Arr(<<Obj("Description" :> Str(<<"d">>))>>)))}

PdbBodies == {Text(n) : n \in 0..MaxBodyLen}

\* the entry documents: each key fetchPDBInfo reads is missing or has one
\* of the listed values
EmptyMap == [k \in {} |-> Null]
Part(k, values) == {EmptyMap} \cup {k :> v : v \in values}
InfoObjects ==
  {Obj(a @@ b @@ c @@ d @@ e) :
     a \in Part("struct",
                {EmptyObj, Obj("title" :> Str(<<>>)), Obj("title" :> Str(<<"T">>)),
                 Obj("title" :> Str(<<"T">>) @@ "pdbx_descriptor" :> Str(<<"D">>))}),
     b \in Part("exptl", {Arr(<<Obj("method" :> Str(<<"X">>))>>)}),
     c \in Part("rcsb_entry_info",
                {Obj("resolution_combined" :> Arr(<<Num(2)>>))}),
     d \in Part("rcsb_accession_info",
                {Obj("deposit_date" :> Str(<<"1">>) @@
                     "initial_release_date" :> Str(<<"2">>))}),
     e \in Part("rcsb_entry_container_identifiers",
                {Obj("polymer_entity_ids" :> Arr(<<Str(<<"1">>)>>))})}
  \cup {Obj("exptl" :> Arr(<<>>)), Obj("exptl" :> Arr(<<EmptyObj>>)),
        Obj("rcsb_entry_info" :> EmptyObj),
        Obj("rcsb_entry_info" :> Obj("resolution_combined" :> Arr(<<>>))),
        Obj("rcsb_entry_info" :> Obj("resolution_combined" :> Arr(<<Num(0)>>))),
        Obj("rcsb_accession_info" :> Obj("deposit_date" :> Str(<<"1">>))),
        Obj("rcsb_entry_container_identifiers" :> EmptyObj)}
InfoDocs == {Unparsable, Null} \cup InfoObjects

IdAlphabet == {"0", "1", "A", "a"}
Identifiers == StringsUpTo(IdAlphabet, MaxIdLen)
SearchEntries ==
  {Null, EmptyObj, Obj("identifier" :> Num(5)), Obj("score" :> Num(3)),
   Obj("identifier" :> Str(<<"4", "H", "H", "B", "_", "1">>) @@ "score" :> Num(0)),
   Obj("identifier" :> Str(<<"4", "h", "h", "b", "_", "1">>) @@ "score" :> Num(3))}
  \cup {Obj("identifier" :> Str(id)) : id \in Identifiers}
  \cup {Obj("identifier" :> Str(id) @@ "score" :> Num(3)) : id \in Identifiers}
ResultSet(v) == Obj("result_set" :> v)
SearchDocs ==
  {Unparsable, Null, EmptyObj, ResultSet(Null), ResultSet(EmptyObj),
   ResultSet(Arr(<<>>))}
  \cup {ResultSet(Arr(<<e>>)) : e \in SearchEntries}
  \cup {ResultSet(Arr(<<e, Obj("identifier" :> Str(<<"1", "A", "A", "A">>))>>)) :
          e \in {Obj("identifier" :> Str(<<"_">>)), Obj("identifier" :> Str(<<"1", "a", "a", "a">>))}}

EntityDocs == {Unparsable, Null, EmptyObj, Obj("entity" :> Str(<<"e">>))}
ChainDocs ==
  {Unparsable, Null, EmptyObj, Obj("sequences" :> Null),
   Obj("sequences" :> Arr(<<>>)), Obj("sequences" :> Arr(<<Str(<<"A">>)>>))}

\* ------------------------------------------------------------ state machine
VARIABLES
  stack,    \* the pending async calls, innermost last
  trace,    \* the calls, requests and returns of the current top-level call
  result,   \* what the top-level call settled with
  status,   \* "idle", "running", "returned" or "threw"
  call      \* the top-level call: function and argument

vars == <<stack, trace, result, status, call>>

Frame(fn, arg) ==
  [fn |-> fn, arg |-> arg, pc |-> "start", loc |-> Null, ret |-> Null,
   waiting |-> FALSE]
Event(ev, name, val) == [ev |-> ev, name |-> name, val |-> val]
Top == stack[Len(stack)]
\* the innermost call is fn, at pc, and not suspended on a callee
At(fn, pc) == stack # <<>> /\ Top.fn = fn /\ Top.pc = pc /\ ~Top.waiting

Init ==
  /\ stack = <<>>
  /\ trace = <<>>
  /\ result = Undef
  /\ status = "idle"
  /\ call = [fn |-> "none", arg |-> <<>>]

\* the application calls an exported function
Invoke(fn, arg) ==
  /\ status = "idle"
  /\ stack' = <<Frame(fn, arg)>>
  /\ trace' = <<Event("call", fn, Str(arg))>>
  /\ result' = Undef
  /\ status' = "running"
  /\ call' = [fn |-> fn, arg |-> arg]

\* await callee(arg): the caller is suspended at pc until the callee settles
Await(fn, arg, pc) ==
  /\ stack' = [stack EXCEPT ![Len(stack)].pc = pc, ![Len(stack)].waiting = TRUE]
                \o <<Frame(fn, arg)>>
  /\ trace' = Append(trace, Event("call", fn, Str(arg)))
  /\ UNCHANGED <<result, status, call>>

\* await fetch(url): the request is issued
Request(endpoint, arg) ==
  /\ stack' = [stack EXCEPT ![Len(stack)].pc = "fetch"]
  /\ trace' = Append(trace, Event("request", endpoint, Str(arg)))
  /\ UNCHANGED <<result, status, call>>

\* the innermost call settles with v (Throw: it rejects); tr is the trace
\* up to that point
ReturnFrom(tr, v) ==
  /\ trace' = Append(tr, Event("return", Top.fn, v))
  /\ IF Len(stack) = 1
     THEN /\ stack' = <<>>
          /\ result' = v
          /\ status' = IF v = Throw THEN "threw" ELSE "returned"
     ELSE /\ stack' = [SubSeq(stack, 1, Len(stack) - 1)
                         EXCEPT ![Len(stack) - 1].ret = v,
                                ![Len(stack) - 1].waiting = FALSE]
          /\ UNCHANGED <<result, status>>
  /\ UNCHANGED call

Return(v) == ReturnFrom(trace, v)

\* fetch settles with resp and the innermost call runs to its return of v
Respond(resp, v) == ReturnFrom(Append(trace, Event("response", Top.fn, resp)), v)

\* ---- fetchPubChemCID
Call_fetchPubChemCID ==
  /\ status = "idle"
  /\ \E smiles \in SmilesInputs : Invoke("fetchPubChemCID", smiles)
fetchPubChemCID_request ==
  /\ At("fetchPubChemCID", "start")
  /\ Request("cids", normalizedSmiles(Top.arg))
fetchPubChemCID_response ==
  /\ At("fetchPubChemCID", "fetch")
  /\ \E resp \in Responses(CIDDocs) : Respond(resp, fetchPubChemCID_result(Top.arg, resp))

\* ---- fetchPubChemProperties
Call_fetchPubChemProperties ==
  /\ status = "idle"
  /\ \E smiles \in SmilesInputs : Invoke("fetchPubChemProperties", smiles)
fetchPubChemProperties_start ==
  /\ At("fetchPubChemProperties", "start")
  /\ Await("fetchPubChemCID", Top.arg, "cid")
\* mutant: the "if (!cid) return null" guard is missing
fetchPubChemProperties_cid_unguarded ==
  /\ At("fetchPubChemProperties", "cid")
  /\ LET cid == Top.ret
     IN  IF cid = Throw THEN Return(Catch(Throw, Null))
         ELSE /\ stack' = [stack EXCEPT ![Len(stack)].pc = "fetch",
                                        ![Len(stack)].loc = cid]
              /\ trace' = Append(trace, Event("request", "property", cid))
              /\ UNCHANGED <<result, status, call>>

\* const cid = await fetchPubChemCID(smiles); if (!cid) return null; fetch(...)
fetchPubChemProperties_cid ==
  /\ At("fetchPubChemProperties", "cid")
  /\ LET cid == Top.ret
     IN  IF cid = Throw THEN Return(Catch(Throw, Null))
         ELSE IF ~Truthy(cid) THEN Return(Null)
         ELSE /\ stack' = [stack EXCEPT ![Len(stack)].pc = "fetch",
                                        ![Len(stack)].loc = cid]
              /\ trace' = Append(trace, Event("request", "property", cid))
              /\ UNCHANGED <<result, status, call>>
fetchPubChemProperties_response ==
  /\ At("fetchPubChemProperties", "fetch")
  /\ \E resp \in Responses(PropertyDocs) :
       Respond(resp, fetchPubChemProperties_result(Top.arg, Top.loc, resp))

\* ---- fetchPubChem3DStructure
Call_fetchPubChem3DStructure ==
  /\ status = "idle"
  /\ \E cid \in CidInputs : Invoke("fetchPubChem3DStructure", cid)
fetchPubChem3DStructure_request ==
  /\ At("fetchPubChem3DStructure", "start")
  /\ Request("record3d", Top.arg)
fetchPubChem3DStructure_response ==
  /\ At("fetchPubChem3DStructure", "fetch")
  /\ \E resp \in {NetErr} \cup {Http(ok, b) : ok \in BOOLEAN, b \in SdfBodies} :
       Respond(resp, fetchPubChem3DStructure_result(Top.arg, resp))

\* ---- fetchPubChemDescription
Call_fetchPubChemDescription ==
  /\ status = "idle"
  /\ \E cid \in CidInputs : Invoke("fetchPubChemDescription", cid)
fetchPubChemDescription_request ==
  /\ At("fetchPubChemDescription", "start")
  /\ Request("description", Top.arg)
fetchPubChemDescription_response ==
  /\ At("fetchPubChemDescription", "fetch")
  /\ \E resp \in Responses(DescriptionDocs) :
       Respond(resp, fetchPubChemDescription_result(Top.arg, resp))

\* ---- fetchCompletePubChemRecord
Call_fetchCompletePubChemRecord ==
  /\ status = "idle"
  /\ \E smiles \in SmilesInputs : Invoke("fetchCompletePubChemRecord", smiles)
fetchCompletePubChemRecord_start ==
  /\ At("fetchCompletePubChemRecord", "start")
  /\ Await("fetchPubChemProperties", Top.arg, "properties")
\* mutant: the guard is missing and the cid is read as properties?.cid
fetchCompletePubChemRecord_properties_unguarded ==
  /\ At("fetchCompletePubChemRecord", "properties")
  /\ LET properties == Top.ret
         cid == Or(OptGet(properties, "cid"), Str(<<>>))
     IN  IF properties = Throw THEN Return(Catch(Throw, Null))
         ELSE /\ stack' = [stack EXCEPT ![Len(stack)].pc = "description",
                                        ![Len(stack)].loc = properties,
                                        ![Len(stack)].waiting = TRUE]
                            \o <<Frame("fetchPubChemDescription", cid.s)>>
              /\ trace' = Append(trace, Event("call", "fetchPubChemDescription", cid))
              /\ UNCHANGED <<result, status, call>>

\* const properties = await ...; if (!properties) return null; await fetchPubChemDescription(properties.cid)
fetchCompletePubChemRecord_properties ==
  /\ At("fetchCompletePubChemRecord", "properties")
  /\ LET properties == Top.ret
     IN  IF properties = Throw THEN Return(Catch(Throw, Null))
         ELSE IF ~Truthy(properties) THEN Return(Null)
         ELSE /\ stack' = [stack EXCEPT ![Len(stack)].pc = "description",
                                        ![Len(stack)].loc = properties,
                                        ![Len(stack)].waiting = TRUE]
                            \o <<Frame("fetchPubChemDescription", Get(properties, "cid").s)>>
              /\ trace' = Append(trace, Event("call", "fetchPubChemDescription",
                                              Get(properties, "cid")))
              /\ UNCHANGED <<result, status, call>>
fetchCompletePubChemRecord_description ==
  /\ At("fetchCompletePubChemRecord", "description")
  /\ Return(Catch(CompleteRecord(Top.loc, Top.ret), Null))

\* ---- fetchPDBStructure
Call_fetchPDBStructure ==
  /\ status = "idle"
  /\ \E pdbId \in PdbIdInputs : Invoke("fetchPDBStructure", pdbId)
fetchPDBStructure_request ==
  /\ At("fetchPDBStructure", "start")
  /\ Request("download", normalizedId(Top.arg))
fetchPDBStructure_response ==
  /\ At("fetchPDBStructure", "fetch")
  /\ \E resp \in {NetErr} \cup {Http(ok, b) : ok \in BOOLEAN, b \in PdbBodies} :
       Respond(resp, fetchPDBStructure_result(Top.arg, resp))

\* ---- fetchPDBInfo
Call_fetchPDBInfo ==
  /\ status = "idle"
  /\ \E pdbId \in PdbIdInputs : Invoke("fetchPDBInfo", pdbId)
fetchPDBInfo_request ==
  /\ At("fetchPDBInfo", "start")
  /\ Request("entry", normalizedId(Top.arg))
fetchPDBInfo_response ==
  /\ At("fetchPDBInfo", "fetch")
  /\ \E resp \in Responses(InfoDocs) : Respond(resp, fetchPDBInfo_result(Top.arg, resp))

\* ---- searchPDBBySequence
Call_searchPDBBySequence ==
  /\ status = "idle"
  /\ \E sequence \in SequenceInputs : Invoke("searchPDBBySequence", sequence)
searchPDBBySequence_request ==
  /\ At("searchPDBBySequence", "start")
  /\ Request("search", cleanSequence(Top.arg))
searchPDBBySequence_response ==
  /\ At("searchPDBBySequence", "fetch")
  /\ \E resp \in Responses(SearchDocs) :
       Respond(resp, searchPDBBySequence_result(Top.arg, resp))

\* ---- fetchPolymerEntityDetails
Call_fetchPolymerEntityDetails ==
  /\ status = "idle"
  /\ \E entityId \in EntityIdInputs : Invoke("fetchPolymerEntityDetails", entityId)
fetchPolymerEntityDetails_request ==
  /\ At("fetchPolymerEntityDetails", "start")
  /\ Request("polymer_entity", Top.arg)
fetchPolymerEntityDetails_response ==
  /\ At("fetchPolymerEntityDetails", "fetch")
  /\ \E resp \in Responses(EntityDocs) :
       Respond(resp, fetchPolymerEntityDetails_result(Top.arg, resp))

\* ---- findBestMatchPDB
Call_findBestMatchPDB ==
  /\ status = "idle"
  /\ \E sequence \in BestMatchInputs : Invoke("findBestMatchPDB", sequence)
findBestMatchPDB_start ==
  /\ At("findBestMatchPDB", "start")
  /\ Await("searchPDBBySequence", Top.arg, "results")
\* const results = await searchPDBBySequence(...); ... await fetchPDBInfo(pdbId)
findBestMatchPDB_results ==
  /\ At("findBestMatchPDB", "results")
  /\ LET loc == findBestMatchPDB_extract(Top.ret)
     IN  IF loc = Throw THEN Return(Catch(Throw, Null))
         ELSE IF loc = Null THEN Return(Null)
         ELSE /\ stack' = [stack EXCEPT ![Len(stack)].pc = "info",
                                        ![Len(stack)].loc = loc,
                                        ![Len(stack)].waiting = TRUE]
                            \o <<Frame("fetchPDBInfo", loc.m["pdbId"].s)>>
              /\ trace' = Append(trace, Event("call", "fetchPDBInfo", loc.m["pdbId"]))
              /\ UNCHANGED <<result, status, call>>
findBestMatchPDB_info ==
  /\ At("findBestMatchPDB", "info")
  /\ Return(Catch(BestMatchRecord(Top.loc, Top.ret), Null))

\* ---- fetchPDBChainSequence
Call_fetchPDBChainSequence ==
  /\ status = "idle"
  /\ \E pdbId \in PdbIdInputs : Invoke("fetchPDBChainSequence", pdbId)
fetchPDBChainSequence_request ==
  /\ At("fetchPDBChainSequence", "start")
  /\ Request("sequence", normalizedId(Top.arg))
fetchPDBChainSequence_response ==
  /\ At("fetchPDBChainSequence", "fetch")
  /\ \E resp \in Responses(ChainDocs) :
       Respond(resp, fetchPDBChainSequence_result(Top.arg, resp))

\* ---- validatePDBId (synchronous)
Call_validatePDBId ==
  /\ status = "idle"
  /\ \E pdbId \in CodeInputs :
       /\ stack' = <<>>
       /\ trace' = <<Event("call", "validatePDBId", Str(pdbId))>>
       /\ result' = Bool(validatePDBId(pdbId))
       /\ status' = "returned"
       /\ call' = [fn |-> "validatePDBId", arg |-> pdbId]

\* the application takes the settled value; nothing is kept between calls
Settle ==
  /\ status \in {"returned", "threw"}
  /\ stack' = <<>>
  /\ trace' = <<>>
  /\ result' = Undef
  /\ status' = "idle"
  /\ call' = [fn |-> "none", arg |-> <<>>]

Next ==
  \/ Call_fetchPubChemCID
  \/ fetchPubChemCID_request
  \/ fetchPubChemCID_response
  \/ Call_fetchPubChemProperties
  \/ fetchPubChemProperties_start
  \/ fetchPubChemProperties_cid
  \/ fetchPubChemProperties_response
  \/ Call_fetchPubChem3DStructure
  \/ fetchPubChem3DStructure_request
  \/ fetchPubChem3DStructure_response
  \/ Call_fetchPubChemDescription
  \/ fetchPubChemDescription_request
  \/ fetchPubChemDescription_response
  \/ Call_fetchCompletePubChemRecord
  \/ fetchCompletePubChemRecord_start
  \/ fetchCompletePubChemRecord_properties
  \/ fetchCompletePubChemRecord_description
  \/ Call_fetchPDBStructure
  \/ fetchPDBStructure_request
  \/ fetchPDBStructure_response
  \/ Call_fetchPDBInfo
  \/ fetchPDBInfo_request
  \/ fetchPDBInfo_response
  \/ Call_searchPDBBySequence
  \/ searchPDBBySequence_request
  \/ searchPDBBySequence_response
  \/ Call_fetchPolymerEntityDetails
  \/ fetchPolymerEntityDetails_request
  \/ fetchPolymerEntityDetails_response
  \/ Call_findBestMatchPDB
  \/ findBestMatchPDB_start
  \/ findBestMatchPDB_results
  \/ findBestMatchPDB_info
  \/ Call_fetchPDBChainSequence
  \/ fetchPDBChainSequence_request
  \/ fetchPDBChainSequence_response
  \/ Call_validatePDBId
  \/ Settle

Spec == Init /\ [][Next]_vars

\* searchPDBBySequence up to its request, over every sequence text of
\* FastaInputs: the call is made and the request body is built
Call_searchFasta ==
  /\ status = "idle"
  /\ \E sequence \in FastaInputs : Invoke("searchPDBBySequence", sequence)
NextFasta == Call_searchFasta \/ searchPDBBySequence_request
SpecFasta == Init /\ [][NextFasta]_vars

TypeOK ==
  /\ status \in {"idle", "running", "returned", "threw"}
  /\ (stack = <<>>) = (status # "running")

\* -------------------------------------------------------------- properties
Requests(endpoint) ==
  {i \in DOMAIN trace : trace[i].ev = "request" /\ trace[i].name = endpoint}
Returns(fn) ==
  {i \in DOMAIN trace : trace[i].ev = "return" /\ trace[i].name = fn}
ResponsesTo(fn) ==
  {i \in DOMAIN trace : trace[i].ev = "response" /\ trace[i].name = fn}
Returned(fn) == call.fn = fn /\ status = "returned"
\* a response that is a failure: transport failure, non-success status,
\* unparsable body or a null document
FailedResponse(resp) ==
  resp.kind = "neterr" \/ ~resp.ok \/ resp.body \in {Unparsable, Null}

\* C1: the property request is issued only after fetchPubChemCID has
\* returned an identifier, and when fetchPubChemCID returns absent (after a
\* transport failure, a non-success response or a payload without an
\* identifier) no property request is issued in the call and
\* fetchPubChemProperties returns absent.
C1_PropertyRequestOnlyAfterCID ==
  /\ \A i \in Requests("property") :
       \E j \in Returns("fetchPubChemCID") :
         j < i /\ trace[j].val.t = "str" /\ trace[i].val = trace[j].val
  /\ \A j \in Returns("fetchPubChemCID") :
       trace[j].val.t # "str" =>
         /\ Requests("property") = {}
         /\ Returned("fetchPubChemProperties") => result = Null
  /\ \A r \in ResponsesTo("fetchPubChemCID") :
       FailedResponse(trace[r].val) => Requests("property") = {}

C1_Witness ==
  /\ Returned("fetchPubChemProperties")
  /\ result = Null
  /\ \E r \in ResponsesTo("fetchPubChemCID") : trace[r].val = Http(TRUE, EmptyObj)
  /\ Requests("property") = {}

\* C2: the description request of fetchCompletePubChemRecord is issued only
\* after fetchPubChemProperties has returned a value, and when
\* fetchPubChemProperties returns absent the description endpoint is never
\* called and fetchCompletePubChemRecord returns absent.
C2_DescriptionOnlyAfterProperties ==
  call.fn = "fetchCompletePubChemRecord" =>
    /\ \A i \in Requests("description") :
         \E j \in Returns("fetchPubChemProperties") :
           j < i /\ trace[j].val.t = "obj"
    /\ \A j \in Returns("fetchPubChemProperties") :
         trace[j].val.t # "obj" =>
           /\ Requests("description") = {}
           /\ Returns("fetchPubChemDescription") = {}
           /\ status = "returned" => result = Null

C2_Witness ==
  /\ Returned("fetchCompletePubChemRecord")
  /\ result = Null
  /\ \E j \in Returns("fetchPubChemProperties") : trace[j].val = Null
  /\ Requests("property") # {}
  /\ Requests("description") = {}

ListFunctions == {"searchPDBBySequence", "fetchPDBChainSequence"}
LeafFunctions ==
  {"fetchPubChemCID", "fetchPubChemProperties", "fetchPubChem3DStructure",
   "fetchPubChemDescription", "fetchPDBStructure", "fetchPDBInfo",
   "searchPDBBySequence", "fetchPolymerEntityDetails", "fetchPDBChainSequence"}

\* C3: no async client function ever settles with a thrown error, whatever
\* its requests answer; after a failed response the function returns null,
\* except searchPDBBySequence and fetchPDBChainSequence, which return the
\* empty list and never null.
C3_NoExceptionEscapes ==
  /\ status # "threw"
  /\ \A i \in DOMAIN trace :
       trace[i].ev = "return" =>
         /\ trace[i].val # Throw
         /\ trace[i].name \in ListFunctions => trace[i].val # Null
  /\ \A i \in DOMAIN trace :
       (trace[i].ev = "response" /\ FailedResponse(trace[i].val)) =>
         /\ i < Len(trace)
         /\ trace[i + 1].ev = "return"
         /\ trace[i + 1].name = trace[i].name
         /\ trace[i + 1].val =
              IF trace[i].name \in ListFunctions THEN Arr(<<>>) ELSE Null
  /\ (Returned("findBestMatchPDB") /\ result # Null) => result.t = "obj"

C3_Witness ==
  /\ Returned("findBestMatchPDB")
  /\ result = Null
  /\ \E i \in Returns("searchPDBBySequence") :
       trace[i].val = Arr(<<EmptyObj>>)

\* the one value fn returned, and the one response fn received, in this call
TheReturn(fn) == trace[CHOOSE i \in Returns(fn) : TRUE].val
TheResponse(fn) == trace[CHOOSE i \in ResponsesTo(fn) : TRUE].val

\* the value at a path of keys in a document ("[0]" is the first element
\* of a list), undefined when any step is missing
RECURSIVE Lookup(_, _)
Lookup(v, path) ==
  IF path = <<>> THEN v
  ELSE IF v.t = "obj" /\ Head(path) \in DOMAIN v.m
  THEN Lookup(v.m[Head(path)], Tail(path))
  ELSE IF v.t = "arr" /\ Head(path) = "[0]" /\ Len(v.a) > 0
  THEN Lookup(v.a[1], Tail(path))
  ELSE Undef

IsAlnum(c) == IsUpper(c) \/ IsLower(c) \/ IsDigit(c)
\* a 4-character code in either letter case starts at position i of s
AnyCaseCodeAt(s, i) ==
  /\ i + 3 <= Len(s)
  /\ IsDigit19(s[i])
  /\ \A j \in 1..3 : IsAlnum(s[i + j])
HasAnyCaseCode(s) == \E i \in 1..Len(s) : AnyCaseCodeAt(s, i)
FirstAnyCaseCode(s) ==
  LET i == CHOOSE i \in 1..Len(s) :
             AnyCaseCodeAt(s, i) /\ \A j \in 1..(i - 1) : ~AnyCaseCodeAt(s, j)
  IN  SubSeq(s, i, i + 3)
\* the identifier of the top-ranked result, undefined when there is none
TopIdentifier(results) == Lookup(results, <<"[0]", "identifier">>)

\* C4: findBestMatchPDB returns absent for an empty result list, and for a
\* top-ranked identifier containing a 4-character code, in either letter
\* case, it returns a match whose code is the uppercased extracted
\* substring and whose entity identifier is that identifier.
C4_BestMatchAnyCase ==
  Returned("findBestMatchPDB") =>
    LET results == TheReturn("searchPDBBySequence")
        id == TopIdentifier(results)
    IN  /\ results = Arr(<<>>) => result = Null
        /\ (id.t = "str" /\ HasAnyCaseCode(id.s)) =>
             /\ result.t = "obj"
             /\ result.m["pdbId"] = Str(toUpperCase(FirstAnyCaseCode(id.s)))
             /\ result.m["entityId"] = id

\* the lines of s, split at "\n"
RECURSIVE SplitLines(_)
SplitLines(s) ==
  IF \A i \in DOMAIN s : s[i] # NL THEN <<s>>
  ELSE LET i == CHOOSE i \in DOMAIN s : s[i] = NL /\ \A j \in 1..(i - 1) : s[j] # NL
       IN  <<SubSeq(s, 1, i - 1)>> \o SplitLines(SubSeq(s, i + 1, Len(s)))
IsHeaderLine(line) == line # <<>> /\ line[1] = ">"
\* s without its header lines and without whitespace
WithoutHeadersAndWhitespace(s) ==
  StripWhitespace(Concat(SelectSeq(SplitLines(s), LAMBDA line : ~IsHeaderLine(line))))

\* C5: the sequence value searchPDBBySequence sends is its input with every
\* line beginning with ">" removed and all whitespace removed.
C5_HeadersAndWhitespaceRemoved ==
  \A i \in Requests("search") :
    trace[i].val = Str(WithoutHeadersAndWhitespace(call.arg))

\* C6: fetchPDBStructure returns absent for every body shorter than 100
\* characters whatever the status, and the body unchanged for every success
\* response whose body has 100 characters or more.
C6_FloorIsHundred ==
  (Returned("fetchPDBStructure") /\ TheResponse("fetchPDBStructure").kind = "http") =>
    LET resp == TheResponse("fetchPDBStructure")
    IN  /\ Len(resp.body.s) < 100 => result = Null
        /\ (resp.ok /\ Len(resp.body.s) >= 100) => result = resp.body

\* C6 as amended: fetchPDBStructure returns absent for every body of 100
\* characters or fewer whatever the status, and the body unchanged for
\* every success response whose body is longer than 100 characters.
C6_FloorIsAboveHundred ==
  (Returned("fetchPDBStructure") /\ TheResponse("fetchPDBStructure").kind = "http") =>
    LET resp == TheResponse("fetchPDBStructure")
    IN  /\ Len(resp.body.s) <= 100 => result = Null
        /\ (resp.ok /\ Len(resp.body.s) > 100) => result = resp.body

C6_Witness ==
  /\ Returned("fetchPDBStructure")
  /\ TheResponse("fetchPDBStructure") = Http(TRUE, Text(100))
  /\ result = Null

\* the field of the returned record that carries each optional property
OptionalField ==
  "LogP" :> "logP" @@
  "TopologicalPolarSurfaceArea" :> "topologicalPolarSurfaceArea" @@
  "HydrogenBondDonorCount" :> "hBondDonor" @@
  "HydrogenBondAcceptorCount" :> "hBondAcceptor" @@
  "RotatableBondCount" :> "rotatableBondCount" @@
  "Complexity" :> "complexity" @@
  "XLogP3" :> "xLogP3" @@
  "ExactMass" :> "exactMass" @@
  "MonoisotopicMass" :> "monoisotopicMass" @@
  "IUPAC_Name" :> "iupacName" @@
  "InChI" :> "inchi" @@
  "InChIKey" :> "inchiKey"
\* fetchPubChemProperties returned after a success response with a
\* property object
GotPropertyObject ==
  /\ Returned("fetchPubChemProperties")
  /\ ResponsesTo("fetchPubChemProperties") # {}
  /\ TheResponse("fetchPubChemProperties").ok
  /\ Lookup(TheResponse("fetchPubChemProperties").body,
            <<"PropertyTable", "Properties", "[0]">>).t = "obj"
PropertyObject ==
  Lookup(TheResponse("fetchPubChemProperties").body,
         <<"PropertyTable", "Properties", "[0]">>)
\* the record's cid is the resolved identifier, a missing molecular weight
\* is 0, a missing formula is "", a missing SMILES field is smilesDefault
\* and a missing optional field is unset
PropertyDefaults(smilesDefault) ==
  LET has == DOMAIN PropertyObject.m
  IN  /\ result.t = "obj"
      /\ result.m["cid"] = TheReturn("fetchPubChemCID")
      /\ "MolecularWeight" \notin has => result.m["molecularWeight"] = Num(0)
      /\ "MolecularFormula" \notin has => result.m["molecularFormula"] = Str(<<>>)
      /\ "CanonicalSMILES" \notin has => result.m["canonicalSmiles"] = smilesDefault
      /\ "IsomericSMILES" \notin has => result.m["isomericSmiles"] = smilesDefault
      /\ \A k \in OptionalProps \ has : result.m[OptionalField[k]] = Undef

\* C7: from a success response with a property object, a missing required
\* field defaults to zero (molecular weight) or to the empty string
\* (formula, canonical SMILES, isomeric SMILES), the cid is the identifier
\* resolved first, and a missing optional field is left unset.
C7_DefaultsZeroOrEmpty == GotPropertyObject => PropertyDefaults(Str(<<>>))

\* C7 as amended: as C7, except that a missing canonical or isomeric SMILES
\* defaults to the notation the caller passed, unchanged.
C7_SmilesDefaultToInput == GotPropertyObject => PropertyDefaults(Str(call.arg))

C7_Witness ==
  /\ GotPropertyObject
  /\ DOMAIN PropertyObject.m = {"MolecularFormula"}
  /\ call.arg = <<SP, "C", "C", SP, "O", NL>>
  /\ result.m["canonicalSmiles"] = Str(call.arg)
  /\ result.m["molecularWeight"] = Num(0)
  /\ result.m["logP"] = Undef

\* a string of length 4: a digit 1-9, then three letters or digits
IsStructureCode(s) ==
  /\ Len(s) = 4
  /\ IsDigit19(s[1])
  /\ \A i \in 2..4 : IsAlnum(s[i])

\* C8: validatePDBId returns true exactly for the strings of length 4 made
\* of a digit 1-9 followed by three letters or digits, in either case.
C8_ValidatesExactlyCodes ==
  Returned("validatePDBId") => result = Bool(IsStructureCode(call.arg))

\* the path in the entry document that supplies each optional field
InfoPath ==
  "description" :> <<"struct", "pdbx_descriptor">> @@
  "method" :> <<"exptl", "[0]", "method">> @@
  "resolution" :> <<"rcsb_entry_info", "resolution_combined", "[0]">> @@
  "depositionDate" :> <<"rcsb_accession_info", "deposit_date">> @@
  "releaseDate" :> <<"rcsb_accession_info", "initial_release_date">> @@
  "chainIds" :> <<"rcsb_entry_container_identifiers", "polymer_entity_ids">> @@
  "experimentalTechnique" :> <<"exptl", "[0]", "method">>
\* fetchPDBInfo returned after a success response carrying a JSON object
GotEntryObject ==
  /\ Returned("fetchPDBInfo")
  /\ TheResponse("fetchPDBInfo").ok
  /\ TheResponse("fetchPDBInfo").body.t = "obj"
EntryObject == TheResponse("fetchPDBInfo").body

\* C9: from a success response with a JSON object, fetchPDBInfo returns a
\* record whose id is the uppercased code, whose title is the payload title
\* or "Unknown" when missing, and whose other fields, chain identifiers
\* included, are absent when the payload does not supply them.
C9_MissingFieldsAbsent ==
  GotEntryObject =>
    /\ result.t = "obj"
    /\ result.m["id"] = Str(toUpperCase(call.arg))
    /\ result.m["title"] =
         IF Lookup(EntryObject, <<"struct", "title">>) = Undef
         THEN Str(UnknownTitle) ELSE Lookup(EntryObject, <<"struct", "title">>)
    /\ \A f \in DOMAIN InfoPath :
         Lookup(EntryObject, InfoPath[f]) = Undef => result.m[f] = Undef

\* C9 as amended: the id is the uppercased code with surrounding whitespace
\* trimmed, the title is the payload title or "Unknown" when it is missing
\* or empty, the chain identifiers are the empty list when the payload does
\* not supply them, and every other field is absent when not supplied.
C9_MissingFieldsAbsentButChains ==
  GotEntryObject =>
    /\ result.t = "obj"
    /\ result.m["id"] = Str(trim(toUpperCase(call.arg)))
    /\ result.m["title"] =
         IF Lookup(EntryObject, <<"struct", "title">>) \in {Undef, Str(<<>>)}
         THEN Str(UnknownTitle) ELSE Lookup(EntryObject, <<"struct", "title">>)
    /\ Lookup(EntryObject, InfoPath["chainIds"]) = Undef =>
         result.m["chainIds"] = Arr(<<>>)
    /\ \A f \in DOMAIN InfoPath \ {"chainIds"} :
         Lookup(EntryObject, InfoPath[f]) = Undef => result.m[f] = Undef

C9_Witness ==
  /\ GotEntryObject
  /\ EntryObject = Obj("struct" :> EmptyObj)
  /\ call.arg = <<"1", "a", "b", "c">>
  /\ result.m["id"] = Str(<<"1", "A", "B", "C">>)
  /\ result.m["title"] = Str(UnknownTitle)
  /\ result.m["chainIds"] = Arr(<<>>)
  /\ result.m["method"] = Undef

\* C10: once fetchPubChemProperties has returned a value,
\* fetchCompletePubChemRecord returns a record with exactly those
\* properties, the description unset when the description fetch yields
\* absent, and the synonyms unset; once findBestMatchPDB has extracted a
\* code from the top-ranked result, it returns a match with that code, the
\* entity identifier and the score (0 when the result has none), also when
\* fetchPDBInfo yields absent.
C10_EnrichmentFailureKeepsResult ==
  /\ (Returned("fetchCompletePubChemRecord")
      /\ TheReturn("fetchPubChemProperties") # Null) =>
       result =
         Obj("properties" :> TheReturn("fetchPubChemProperties") @@
             "description" :>
               (IF TheReturn("fetchPubChemDescription") = Null THEN Undef
                ELSE TheReturn("fetchPubChemDescription")) @@
             "synonyms" :> Undef)
  /\ (Returned("findBestMatchPDB")
      /\ TopIdentifier(TheReturn("searchPDBBySequence")).t = "str"
      /\ pdbIdMatch(TopIdentifier(TheReturn("searchPDBBySequence"))) # Null) =>
       LET results == TheReturn("searchPDBBySequence")
           score == Lookup(results, <<"[0]", "score">>)
       IN  /\ Returns("fetchPDBInfo") # {}
           /\ result =
                Obj("pdbId" :> pdbIdMatch(TopIdentifier(results)) @@
                    "entityId" :> TopIdentifier(results) @@
                    "score" :> (IF score = Undef THEN Num(0) ELSE score) @@
                    "info" :> TheReturn("fetchPDBInfo"))

C10_Witness ==
  /\ Returned("findBestMatchPDB")
  /\ Returns("fetchPDBInfo") # {}
  /\ TheReturn("fetchPDBInfo") = Null
  /\ result.t = "obj"
  /\ result.m["score"] = Num(0)
  /\ result.m["info"] = Null

====
